---- MODULE Spec2Model ----
(***************************************************************************)
(* Model of scripts/npm_domain_check.py and scripts/remove_domain_column.py *)
(* One run of a script is a sequence of steps (pc); the table               *)
(* access_list_client, the JSON snapshot file and the generated proxy host  *)
(* files persist between runs.                                              *)
(***************************************************************************)
EXTENDS Integers, Sequences, FiniteSets, TLC

\* ---------------------------------------------------------------- bounds
NumRows == 2
MaxRuns == 2

\* The sample universe of addresses and domain names.
IPs == {"10.0.0.1", "10.0.0.2"}
Domains == {"a.example.com", "b.example.com"}

\* SQL NULL / Python None for a domain, an address, an IP.
NULL == "NULL"
None == "None"
NoAddress == <<>>

PrefixLen == 32

Scripts == {"npm_domain_check", "remove_domain_column"}

VARIABLES
    dns,            \* the answers of socket.gethostbyname, per domain
    db,             \* committed rows of access_list_client
    column_exists,  \* whether access_list_client has the column domain
    config,         \* the snapshot file CONFIG_PATH (ip -> domain)
    conf,           \* the IPs written in /data/nginx/proxy_host/*
    script,         \* the script being run
    pc,             \* position in main()
    exit_code,      \* the exit code of the last run
    status,         \* why the last run ended
    domain_map,     \* main: domain_map
    rows,           \* main: rows
    items,          \* main: the pairs of list(domain_map.items()) not yet visited
    i,              \* main: index of the row of the loop of STEP 5.5
    tx,             \* the rows as the open connection sees them (uncommitted)
    nginx_reload_needed,
    updated_count,
    lookups,        \* history: the domain resolve_ip was called with, per row
    log,            \* history: the side effects of this run, in order
    start,          \* history: the persistent state when this run started
    prev,           \* history: the persistent state when the previous pass started
    passes,         \* history: passes completed in immediate succession
    runs            \* number of runs started

vars == <<dns, db, column_exists, config, conf, script, pc, exit_code, status,
          domain_map, rows, items, i, tx, nginx_reload_needed, updated_count,
          lookups, log, start, prev, passes, runs>>

persistent == <<db, column_exists, config, conf>>
locals == <<domain_map, rows, items, i, tx, nginx_reload_needed, updated_count, lookups>>

\* ------------------------------------------------------------ data shapes
Addresses == {NoAddress} \cup {<<ip, PrefixLen>> : ip \in IPs}
RowIds == 1..NumRows
RowValues == [domain : Domains \cup {NULL}, address : Addresses]
Tables == [RowIds -> RowValues]
\* a dict with keys in K and values in V
Dicts(K, V) == UNION {[S -> V] : S \in SUBSET K}
EmptyDict == [k \in {} |-> NULL]

\* ---------------------------------------------------------- pure helpers
\* address.split("/")[0], None for a row without address
IpOf(address) == IF address = NoAddress THEN None ELSE address[1]

\* f"{ip_new}/32"
NewAddress(ip) == <<ip, PrefixLen>>

\* resolve_ip: the IPv4 address, None on failure
resolve_ip(domain) == dns[domain]

Max(S) == CHOOSE x \in S : \A y \in S : y <= x

\* STEP 5.3: the last row of each ip wins; rows without address are under None
table_by_ip(rs) ==
    [ip \in {IpOf(rs[k].address) : k \in DOMAIN rs} |->
        Max({k \in DOMAIN rs : IpOf(rs[k].address) = ip})]

\* del d[key]
DictDel(d, key) == [k \in (DOMAIN d) \ {key} |-> d[k]]
\* d[key] = value
DictSet(d, key, value) == [k \in (DOMAIN d) \cup {key} |-> IF k = key THEN value ELSE d[k]]

\* (variant of ResolutionFailed: the result of resolve_ip is never tested)
ResolutionFailed_never(ip_new) == FALSE

\* STEP 5.5, "Skip if resolution failed": if not ip_new
ResolutionFailed(ip_new) == ip_new = None

\* (variant of RestoreMap: the stale pair is kept)
RestoreMap_keep(dm, ip) == dm

\* STEP 5.4, a stale pair: del domain_map[ip]
RestoreMap(dm, ip) == DictDel(dm, ip)

\* UPDATE access_list_client SET domain=%s WHERE id=%s
SetDomain(t, id, domain) == [t EXCEPT ![id].domain = domain]
\* UPDATE access_list_client SET address=%s WHERE id=%s
SetAddress(t, id, address) == [t EXCEPT ![id].address = address]

\* (variant of ResolveMap: domain_map[ip_old] is never deleted)
ResolveMap_nodel(dm, ip_old, ip_new, domain) == DictSet(dm, ip_new, domain)

\* STEP 5.5, "Update domain_map for config saving"
ResolveMap(dm, ip_old, ip_new, domain) ==
    LET set == DictSet(dm, ip_new, domain)
    IN  IF ip_old \in DOMAIN set /\ ip_old # ip_new THEN DictDel(set, ip_old) ELSE set

\* sed -i 's/old_ip/new_ip/g' /data/nginx/proxy_host/*
Sed(c, old_ip, new_ip) == IF old_ip \in c THEN (c \ {old_ip}) \cup {new_ip} ELSE c

\* (variant of AbsentExitCode: both scripts exit with 0)
AbsentExitCode_zero(s) == 0

\* the exit code of a script that finds no container CONTAINER_NAME
AbsentExitCode(s) == IF s = "npm_domain_check" THEN 0 ELSE 1

\* ALTER TABLE access_list_client DROP COLUMN domain
DropDomains(t) == [id \in DOMAIN t |-> [t[id] EXCEPT !.domain = NULL]]

Persistent == [db |-> db, column_exists |-> column_exists, config |-> config, conf |-> conf]

\* ------------------------------------------------------------------ Init
Init ==
    /\ dns \in [Domains -> IPs \cup {None}]
    /\ column_exists \in BOOLEAN
    /\ db \in Tables
    /\ column_exists = FALSE => \A id \in RowIds : db[id].domain = NULL
    /\ config \in Dicts(IPs, Domains)
    /\ conf = {IpOf(db[id].address) : id \in RowIds} \ {None}
    /\ script = "npm_domain_check"
    /\ pc = "idle"
    /\ exit_code = 0
    /\ status = "none"
    /\ domain_map = EmptyDict
    /\ rows = <<>>
    /\ items = {}
    /\ i = 1
    /\ tx = db
    /\ nginx_reload_needed = FALSE
    /\ updated_count = 0
    /\ lookups = [id \in RowIds |-> NULL]
    /\ log = <<>>
    /\ start = [db |-> db, column_exists |-> column_exists, config |-> config, conf |-> conf]
    /\ prev = [db |-> db, config |-> config]
    /\ passes = 0
    /\ runs = 0

\* --------------------------------------------------------------- actions
\* sys.exit(code); the finally clause closes the connection, so what was not
\* committed is rolled back. A run that ends here breaks the succession of
\* completed passes that `passes` counts.
Exit(code, why) ==
    /\ pc' = "exited"
    /\ exit_code' = code
    /\ status' = why
    /\ tx' = db
    /\ passes' = 0

\* the locals of main() before its first statement
Begin(s) ==
    /\ script' = s
    /\ pc' = "container_exists"
    /\ exit_code' = 0
    /\ status' = "running"
    /\ domain_map' = EmptyDict
    /\ rows' = <<>>
    /\ items' = {}
    /\ i' = 1
    /\ tx' = db
    /\ nginx_reload_needed' = FALSE
    /\ updated_count' = 0
    /\ lookups' = [id \in RowIds |-> NULL]
    /\ log' = <<>>
    /\ start' = Persistent

\* the script is started (by cron or by hand)
Start(s) ==
    /\ pc = "idle"
    /\ Begin(s)
    /\ runs' = 1
    /\ UNCHANGED <<dns, persistent, prev, passes>>

\* the script is started again after a run has ended
Restart(s) ==
    /\ pc = "exited"
    /\ runs < MaxRuns
    /\ Begin(s)
    /\ runs' = runs + 1
    /\ prev' = IF status = "ok" /\ script = "npm_domain_check"
               THEN [db |-> start.db, config |-> start.config]
               ELSE prev
    /\ UNCHANGED <<dns, persistent, passes>>

\* STEP 1: container_exists(CONTAINER_NAME)
ContainerExists ==
    /\ pc = "container_exists"
    /\ \E docker \in {"error", "absent", "present"} :
        \/ /\ docker = "error"
           /\ Exit(1, "docker_error")
        \/ /\ docker = "absent"
           /\ Exit(AbsentExitCode(script), "container_absent")
        \/ /\ docker = "present"
           /\ pc' = IF script = "npm_domain_check" THEN "load_config" ELSE "get_env"
           /\ UNCHANGED <<exit_code, status, tx, passes>>
    /\ UNCHANGED <<dns, persistent, script, domain_map, rows, items, i,
                   nginx_reload_needed, updated_count, lookups, log, start, prev, runs>>

\* STEP 2 of npm_domain_check: domain_map = load_config()
LoadConfig ==
    /\ pc = "load_config"
    /\ domain_map' = config
    /\ pc' = "get_env"
    /\ UNCHANGED <<dns, persistent, script, exit_code, status, rows, items, i, tx,
                   nginx_reload_needed, updated_count, lookups, log, start, prev,
                   passes, runs>>

\* get_env_from_container and the check of required_vars
GetEnv ==
    /\ pc = "get_env"
    /\ \E env \in {"error", "missing", "ok"} :
        \/ /\ env = "error"
           /\ Exit(1, "env_error")
        \/ /\ env = "missing"
           /\ Exit(1, "missing_env")
        \/ /\ env = "ok"
           /\ pc' = "connect"
           /\ UNCHANGED <<exit_code, status, tx, passes>>
    /\ UNCHANGED <<dns, persistent, script, domain_map, rows, items, i,
                   nginx_reload_needed, updated_count, lookups, log, start, prev, runs>>

\* mysql.connector.connect
Connect ==
    /\ pc = "connect"
    /\ \E ok \in BOOLEAN :
        \/ /\ ~ok
           /\ Exit(1, "connect_error")
        \/ /\ ok
           /\ pc' = IF script = "npm_domain_check" THEN "ensure_column" ELSE "drop_column"
           /\ UNCHANGED <<exit_code, status, tx, passes>>
    /\ UNCHANGED <<dns, persistent, script, domain_map, rows, items, i,
                   nginx_reload_needed, updated_count, lookups, log, start, prev, runs>>

\* STEP 5.1 of npm_domain_check: create the column domain when it is missing
EnsureColumn ==
    /\ pc = "ensure_column"
    /\ \/ /\ column_exists
          /\ pc' = "fetch"
          /\ UNCHANGED <<column_exists, log, exit_code, status, tx, passes>>
       \/ /\ ~column_exists
          /\ \E ok \in BOOLEAN :
                \/ /\ ok
                   /\ column_exists' = TRUE
                   /\ log' = Append(log, "alter_table")
                   /\ pc' = "fetch"
                   /\ UNCHANGED <<exit_code, status, tx, passes>>
                \/ /\ ~ok
                   /\ Exit(1, "alter_error")
                   /\ UNCHANGED <<column_exists, log>>
    /\ UNCHANGED <<dns, db, config, conf, script, domain_map, rows, items, i,
                   nginx_reload_needed, updated_count, lookups, start, prev, runs>>

\* STEP 5.2 and 5.3: rows = cursor.fetchall(), and the list the loop of STEP 5.4
\* runs over, list(domain_map.items())
Fetch ==
    /\ pc = "fetch"
    /\ rows' = tx
    /\ items' = {<<ip, domain_map[ip]>> : ip \in DOMAIN domain_map}
    /\ pc' = IF items' = {} THEN "resolve" ELSE "restore"
    /\ UNCHANGED <<dns, persistent, script, exit_code, status, domain_map, i, tx,
                   nginx_reload_needed, updated_count, lookups, log, start, prev,
                   passes, runs>>

\* STEP 5.4: one iteration of "restore missing domains from config"
RestoreStep ==
    /\ pc = "restore"
    /\ \E item \in items :
        LET ip == item[1]
            domain == item[2]
        IN  /\ items' = items \ {item}
            /\ IF ip \notin DOMAIN table_by_ip(rows)
               THEN /\ domain_map' = RestoreMap(domain_map, ip)
                    /\ UNCHANGED <<tx, updated_count>>
               ELSE LET id == table_by_ip(rows)[ip]
                        db_row == rows[id]
                    IN  /\ IF db_row.domain # domain
                           THEN /\ tx' = SetDomain(tx, id, domain)
                                /\ updated_count' = updated_count + 1
                           ELSE UNCHANGED <<tx, updated_count>>
                        /\ UNCHANGED domain_map
    /\ pc' = IF items' = {} THEN "resolve" ELSE "restore"
    /\ UNCHANGED <<dns, persistent, script, exit_code, status, rows, i,
                   nginx_reload_needed, lookups, log, start, prev, passes, runs>>

\* STEP 5.5: one iteration of "resolve domains and update IPs"
ResolveStep ==
    /\ pc = "resolve"
    /\ LET row == rows[i]
           row_id == i
           domain == row.domain
           ip_old == IpOf(row.address)
           ip_new == resolve_ip(domain)
       IN  IF domain = NULL
           THEN UNCHANGED <<tx, conf, nginx_reload_needed, updated_count, domain_map, lookups>>
           ELSE /\ lookups' = [lookups EXCEPT ![row_id] = domain]
                /\ IF ResolutionFailed(ip_new)
                   THEN UNCHANGED <<tx, conf, nginx_reload_needed, updated_count, domain_map>>
                   ELSE /\ IF ip_new # ip_old
                           THEN /\ tx' = SetAddress(tx, row_id, NewAddress(ip_new))
                                /\ \E sed_ok \in BOOLEAN :
                                     conf' = IF sed_ok /\ ip_old # None
                                             THEN Sed(conf, ip_old, ip_new)
                                             ELSE conf
                                /\ nginx_reload_needed' = TRUE
                                /\ updated_count' = updated_count + 1
                           ELSE UNCHANGED <<tx, conf, nginx_reload_needed, updated_count>>
                        /\ domain_map' = ResolveMap(domain_map, ip_old, ip_new, domain)
    /\ i' = i + 1
    /\ pc' = IF i' > Len(rows) THEN "save_config" ELSE "resolve"
    /\ UNCHANGED <<dns, db, column_exists, config, script, exit_code, status, rows,
                   items, log, start, prev, passes, runs>>

\* save_config(domain_map)
SaveConfig ==
    /\ pc = "save_config"
    /\ config' = domain_map
    /\ log' = Append(log, "save_config")
    /\ pc' = "commit"
    /\ UNCHANGED <<dns, db, column_exists, conf, script, exit_code, status, locals,
                   start, prev, passes, runs>>

\* conn.commit()
Commit ==
    /\ pc = "commit"
    /\ db' = tx
    /\ log' = Append(log, "commit")
    /\ pc' = "reload"
    /\ UNCHANGED <<dns, column_exists, config, conf, script, exit_code, status, locals,
                   start, prev, passes, runs>>

\* STEP 6 and STEP 7: reload nginx if needed, then main returns
ReloadNginx ==
    /\ pc = "reload"
    /\ log' = IF nginx_reload_needed THEN Append(log, "reload_nginx") ELSE log
    /\ pc' = "exited"
    /\ exit_code' = 0
    /\ status' = "ok"
    /\ passes' = passes + 1
    /\ UNCHANGED <<dns, persistent, script, locals, start, prev, runs>>

\* STEP 4 of remove_domain_column: drop the column domain when it exists
DropColumn ==
    /\ pc = "drop_column"
    /\ \/ /\ ~column_exists
          /\ Exit(0, "ok")
          /\ UNCHANGED <<db, column_exists, log>>
       \/ /\ column_exists
          /\ \E ok \in BOOLEAN :
                \/ /\ ok
                   /\ column_exists' = FALSE
                   /\ db' = DropDomains(db)
                   /\ tx' = DropDomains(db)
                   /\ log' = Append(log, "alter_table")
                   /\ pc' = "exited"
                   /\ exit_code' = 0
                   /\ status' = "ok"
                   /\ passes' = 0
                \/ /\ ~ok
                   /\ Exit(1, "alter_error")
                   /\ UNCHANGED <<db, column_exists, log>>
    /\ UNCHANGED <<dns, config, conf, script, domain_map, rows, items, i,
                   nginx_reload_needed, updated_count, lookups, start, prev, runs>>

Next ==
    \/ \E s \in Scripts : Start(s)
    \/ ContainerExists
    \/ LoadConfig
    \/ GetEnv
    \/ Connect
    \/ EnsureColumn
    \/ Fetch
    \/ RestoreStep
    \/ ResolveStep
    \/ SaveConfig
    \/ Commit
    \/ ReloadNginx
    \/ DropColumn

\* one run of either script, from any table, snapshot and DNS answers
Spec == Init /\ [][Next]_vars

\* successive runs, with nothing but the scripts changing the persistent state
NextRuns == Next \/ \E s \in Scripts : Restart(s)
Runs == Init /\ [][NextRuns]_vars

\* ------------------------------------------------------------ properties
\* a pass of npm_domain_check.main has completed successfully
PassOk == pc = "exited" /\ script = "npm_domain_check" /\ status = "ok"

\* the IPs of the addresses of a table
IpsOf(t) == {IpOf(t[id].address) : id \in DOMAIN t} \ {None}

\* resolve_ip was called for the row in this pass and gave an address
Resolved(id) == lookups[id] # NULL /\ resolve_ip(lookups[id]) # None
\* resolve_ip was called for the row in this pass and failed
Failed(id) == lookups[id] # NULL /\ resolve_ip(lookups[id]) = None

\* the snapshot keys that no row had as its IP when the pass started
StaleKeys == (DOMAIN start.config) \ IpsOf(start.db)

\* C1: after a successful pass every row with a non-empty domain that resolves
\* has address '<resolved_ip>/32', rows whose domain the pass restored included.
C1_AddressIsResolution ==
    PassOk =>
        \A id \in RowIds :
            (db[id].domain # NULL /\ resolve_ip(db[id].domain) # None)
                => db[id].address = NewAddress(resolve_ip(db[id].domain))

\* C2: the second of two passes run in immediate succession, with the same DNS
\* answers, updates no row, writes the snapshot it found, patches no
\* configuration file and triggers no reload.
C2_SecondPassNoMutation ==
    (PassOk /\ passes >= 2) =>
        /\ updated_count = 0
        /\ db = start.db
        /\ config = start.config
        /\ conf = start.conf
        /\ ~nginx_reload_needed

\* C3: a row whose domain is empty while its IP is a snapshot key gets the
\* snapshot's domain, and resolve_ip is called for it with that domain in the
\* same pass.
C3_RestoreThenResolve ==
    PassOk =>
        \A id \in RowIds :
            LET ip == IpOf(start.db[id].address)
            IN  (start.db[id].domain = NULL /\ ip \in DOMAIN start.config)
                    => /\ db[id].domain = start.config[ip]
                       /\ lookups[id] = start.config[ip]

\* C4 as stated: a snapshot key that was no row's IP when the pass started is
\* not a key of the snapshot written by the pass, whatever the domains resolve to.
C4_StaleKeyGone ==
    PassOk => \A ip \in StaleKeys : ip \notin DOMAIN config

\* C4 as amended: such a key is in the written snapshot exactly when some row's
\* domain resolved to that IP in the pass, and it is then mapped to the domain
\* of such a row; the stale pair itself is dropped.
C4_StaleKeyGoneUnlessResolved ==
    PassOk =>
        \A ip \in StaleKeys :
            LET again == {id \in RowIds : Resolved(id) /\ resolve_ip(lookups[id]) = ip}
            IN  /\ ip \in DOMAIN config <=> again # {}
                /\ ip \in DOMAIN config => \E id \in again : config[ip] = lookups[id]

\* C4 witness: a pass has purged a stale key
C4_Witness ==
    PassOk /\ \E ip \in StaleKeys : ip \notin DOMAIN config

\* C5: after a successful pass the snapshot has a key for the resulting IP of
\* every row whose domain was resolved in the pass.
C5_SnapshotComplete ==
    PassOk => \A id \in RowIds : Resolved(id) => IpOf(db[id].address) \in DOMAIN config

\* C6 as stated: when resolve_ip fails for a row, its address and its snapshot
\* pair are as they were before the pass, and every other row whose domain
\* resolved has the resolved address.
C6_FailureIsolation ==
    PassOk =>
        \A id \in RowIds :
            Failed(id) =>
                LET ip == IpOf(start.db[id].address)
                IN  /\ db[id].address = start.db[id].address
                    /\ ip \in DOMAIN start.config
                          => (ip \in DOMAIN config /\ config[ip] = start.config[ip])
                    /\ \A other \in RowIds \ {id} :
                          Resolved(other)
                              => db[other].address = NewAddress(resolve_ip(lookups[other]))

\* C6 as amended: the address of the failing row is as it was, every other row
\* whose domain resolved has the resolved address, and the snapshot pair of the
\* failing row's IP is changed only by another row: one whose domain resolved
\* to that IP, or one that had that IP and resolved to another.
C6_FailureIsolationOfRows ==
    PassOk =>
        \A id \in RowIds :
            Failed(id) =>
                LET ip == IpOf(start.db[id].address)
                    kept == ip \in DOMAIN config /\ config[ip] = start.config[ip]
                IN  /\ db[id].address = start.db[id].address
                    /\ (ip \in DOMAIN start.config /\ ~kept)
                          => \E other \in RowIds \ {id} :
                                /\ Resolved(other)
                                /\ \/ resolve_ip(lookups[other]) = ip
                                   \/ /\ IpOf(start.db[other].address) = ip
                                      /\ resolve_ip(lookups[other]) # ip
                    /\ \A other \in RowIds \ {id} :
                          Resolved(other)
                              => db[other].address = NewAddress(resolve_ip(lookups[other]))

\* C6 witness: a row after the failing one got a new address in the same pass
C6_Witness ==
    /\ PassOk
    /\ \E id \in RowIds : \E other \in RowIds :
          /\ Failed(id)
          /\ other > id
          /\ Resolved(other)
          /\ db[other].address # start.db[other].address

\* the positions of a side effect in the log of the run
At(what) == {n \in DOMAIN log : log[n] = what}

\* C7: the rows are committed before the snapshot file is written, and nginx is
\* reloaded after both and only when an address was changed in the pass.
C7_CommitThenSnapshotThenReload ==
    script = "npm_domain_check" =>
        /\ \A n \in At("save_config") : \E m \in At("commit") : m < n
        /\ \A n \in At("reload_nginx") :
              /\ \E m \in At("commit") : m < n
              /\ \E m \in At("save_config") : m < n
              /\ \E id \in RowIds : db[id].address # start.db[id].address
        /\ PassOk => (At("reload_nginx") # {}
                        <=> \E id \in RowIds : db[id].address # start.db[id].address)

\* the runs that end on a fatal precondition failure
Fatal == {"docker_error", "env_error", "missing_env", "connect_error", "alter_error"}

\* the run made no mutation
NoMutation == Persistent = start /\ log = <<>>

\* C8 as stated: both scripts exit with 0 on success and when the container is
\* absent, with 1 on a fatal precondition failure; no mutation was made when
\* the container is absent or the failure is fatal.
C8_ExitCodes ==
    pc = "exited" =>
        /\ status \in {"ok", "container_absent"} => exit_code = 0
        /\ status \in Fatal => exit_code = 1
        /\ status # "ok" => NoMutation

\* C8 as amended: as stated for npm_domain_check; remove_domain_column exits
\* with 1 when the container is absent.
C8_ExitCodesPerScript ==
    pc = "exited" =>
        /\ status = "ok" => exit_code = 0
        /\ status = "container_absent"
              => exit_code = (IF script = "remove_domain_column" THEN 1 ELSE 0)
        /\ status \in Fatal => exit_code = 1
        /\ status # "ok" => NoMutation

\* C8 witness: remove_domain_column has found no container
C8_Witness ==
    /\ pc = "exited"
    /\ script = "remove_domain_column"
    /\ status = "container_absent"
    /\ exit_code = 1

\* C9: every key of the snapshot written by a successful pass is the IP of a
\* row of the table after the pass.
C9_NoStaleKey ==
    PassOk => DOMAIN config \subseteq IpsOf(db)

\* C9 witness: a pass has removed the key of an IP that a row has left
C9_Witness ==
    /\ PassOk
    /\ \E ip \in (DOMAIN start.config) \cap IpsOf(start.db) :
          ip \notin DOMAIN config /\ ip \notin IpsOf(db)

\* C10: successive passes do not alternate: a pass that brings the table and
\* the snapshot back to what they were before the previous pass has changed
\* nothing.
C10_NoAlternation ==
    (PassOk /\ passes >= 2 /\ db = prev.db /\ config = prev.config)
        => (db = start.db /\ config = start.config)
====
